---- MODULE Spec2Model ----
(***************************************************************************)
(* PyGoBGP: a Python client of the GoBGP daemon's gRPC interface.          *)
(*                                                                         *)
(* The model covers pygobgp/pygobgp.py: the decoding of the raw BGP path   *)
(* attributes of a RIB response (_extract_routes and the four _extract_*   *)
(* decoders, which control/gobgp.py repeats verbatim), get_neighbor and    *)
(* the construction of a Peer by the Neighbor class.                       *)
(*                                                                         *)
(* Python values are modelled as follows.                                  *)
(*   bytes            a sequence of integers 0..255                        *)
(*   str of bytes.hex a sequence of one-character strings                  *)
(*   None             the record None                                      *)
(*   a returned value the record Value(v)                                  *)
(*   a raised error   the record Raise(name of the exception class)        *)
(* TLC integers are 32 bits wide, so the attribute values the model draws  *)
(* keep every int(..., 16) below 2^31; where the code packs an integer     *)
(* into 32 bits (struct.pack(">L")) the model works on the hex digits.     *)
(***************************************************************************)
EXTENDS Integers, Sequences, FiniteSets, TLC

VARIABLES
    pattrs,      \* decoder run: destination.paths[0].pattrs handed to a decoder
    call,        \* decoder run: which decoder was called ("none" before the call)
    result,      \* decoder run: what the decoder returned or raised
    rib,         \* routes.table.destinations of the daemon's GetRib response
    pc,          \* get_rib: "idle", "loop", "returned" or "raised"
    i,           \* get_rib: 1-based position of the for loop of _extract_routes
    container,   \* get_rib: the list _extract_routes builds
    exc,         \* get_rib: the exception that left _extract_routes, if any
    peers,       \* resp.peers of the daemon's GetNeighbor response
    gn_call,     \* get_neighbor / get_all_neighbors: the call made
    gn_result,   \* get_neighbor / get_all_neighbors: its outcome
    neighbor     \* the Neighbor object built by Neighbor(...), or None

vars == <<pattrs, call, result, rib, pc, i, container, exc,
          peers, gn_call, gn_result, neighbor>>
decode_vars == <<pattrs, call, result>>
rib_vars == <<rib, pc, i, container, exc>>
peer_vars == <<peers, gn_call, gn_result, neighbor>>

(***************************************************************************)
(* Bounds of the model.                                                    *)
(***************************************************************************)
MaxAttrs == 2      \* attributes in the path handed to a decoder
MaxAsns == 2       \* AS numbers in a generated AS_PATH
MaxFields == 3     \* 2-byte fields in a generated COMMUNITY
MaxDests == 2      \* destinations in the RIB table
MaxPaths == 2      \* paths of one destination
MaxPeers == 2      \* peers in the daemon's peer list

(***************************************************************************)
(* Python outcomes.                                                        *)
(***************************************************************************)
None == [kind |-> "None"]
Value(v) == [kind |-> "value", val |-> v]
Raise(e) == [kind |-> "raise", exc |-> e]

Min(a, b) == IF a < b THEN a ELSE b

(***************************************************************************)
(* str and bytes primitives.                                               *)
(***************************************************************************)
HexChars == <<"0", "1", "2", "3", "4", "5", "6", "7",
              "8", "9", "a", "b", "c", "d", "e", "f">>
UpperHexChars == <<"0", "1", "2", "3", "4", "5", "6", "7",
                   "8", "9", "A", "B", "C", "D", "E", "F">>

\* bytes.hex(): two lowercase hex digits per byte
hex(b) ==
    [k \in 1..(2 * Len(b)) |->
        LET byte == b[(k + 1) \div 2]
        IN  HexChars[(IF k % 2 = 1 THEN byte \div 16 ELSE byte % 16) + 1]]

\* an upper() that leaves the string as it is
upper_no_op(s) == s

\* str.upper() on a string of hex digits
upper(s) ==
    [k \in 1..Len(s) |->
        IF \E d \in 1..16 : HexChars[d] = s[k]
        THEN UpperHexChars[CHOOSE d \in 1..16 : HexChars[d] = s[k]]
        ELSE s[k]]

\* str.startswith(prefix)
startswith(s, prefix) ==
    /\ Len(s) >= Len(prefix)
    /\ SubSeq(s, 1, Len(prefix)) = prefix

\* s[n:]
slice_from(s, n) == IF n >= Len(s) THEN <<>> ELSE SubSeq(s, n + 1, Len(s))

\* s[a:b]
slice(s, a, b) ==
    IF a >= Min(b, Len(s)) THEN <<>> ELSE SubSeq(s, a + 1, Min(b, Len(s)))

\* the value of one hex digit, either case, as int(..., 16) reads it
digit_value(c) ==
    (CHOOSE d \in 1..16 : HexChars[d] = c \/ UpperHexChars[d] = c) - 1

\* int(s, 16) of a non-empty string of hex digits (the empty string raises
\* ValueError, which the callers model)
RECURSIVE int16(_)
int16(s) ==
    IF Len(s) = 0 THEN 0
    ELSE 16 * int16(SubSeq(s, 1, Len(s) - 1)) + digit_value(s[Len(s)])

\* "{}".format(n) of a non-negative integer
str(n) == ToString(n)

(***************************************************************************)
(* The decoders of PyGoBGP.                                                *)
(***************************************************************************)
as_path_prefix == <<"4", "0", "0", "2">>      \* prefix = "4002"
community_prefix == <<"C", "0", "0">>         \* prefix = "C00"
next_hop_prefix == <<"4", "0", "0", "3">>     \* prefix = "4003"
med_prefix == <<"8", "0", "0">>               \* prefix = "800"

\* chunkstring(string, length): int(string[0+i:length+i], 16) for i in
\* range(0, len(string), length); the last chunk may be shorter than length
chunkstring(string, length) ==
    [j \in 1..((Len(string) + length - 1) \div length) |->
        int16(slice(string, (j - 1) * length, j * length))]

\* a scan that keeps the last string that starts with prefix
last_match(strings, prefix) ==
    IF \E k \in 1..Len(strings) : startswith(strings[k], prefix)
    THEN CHOOSE k \in 1..Len(strings) :
            /\ startswith(strings[k], prefix)
            /\ \A j \in (k + 1)..Len(strings) : ~startswith(strings[j], prefix)
    ELSE 0

\* the position of the first string of strings that starts with prefix (the
\* for loop returns at the first match); 0 when none does
first_match(strings, prefix) ==
    IF \E k \in 1..Len(strings) : startswith(strings[k], prefix)
    THEN CHOOSE k \in 1..Len(strings) :
            /\ startswith(strings[k], prefix)
            /\ \A j \in 1..(k - 1) : ~startswith(strings[j], prefix)
    ELSE 0

_extract_as_path(destination) ==
    IF Len(destination.paths) = 0 THEN Raise("IndexError")
    ELSE LET attrs == destination.paths[1].pattrs
             k == first_match([n \in 1..Len(attrs) |-> hex(attrs[n])],
                              as_path_prefix)
         IN  IF k = 0 THEN None
             ELSE Value(chunkstring(slice_from(hex(attrs[k]), 10), 8))

\* a pairing that joins every field with its predecessor (index >= 1 in place
\* of index % 2 == 1)
pair_communities_every_index(communities) ==
    [m \in 1..(Len(communities) - 1) |->
        str(communities[m]) \o ":" \o str(communities[m + 1])]

\* the pairing loop of _extract_community: for every odd 0-based index,
\* "{}:{}".format(communities[index-1], communities[index])
pair_communities(communities) ==
    [m \in 1..(Len(communities) \div 2) |->
        str(communities[2 * m - 1]) \o ":" \o str(communities[2 * m])]

_extract_community(destination) ==
    IF Len(destination.paths) = 0 THEN Raise("IndexError")
    ELSE LET attrs == destination.paths[1].pattrs
             k == first_match([n \in 1..Len(attrs) |-> upper(hex(attrs[n]))],
                              community_prefix)
         IN  IF k = 0 THEN None
             ELSE Value(pair_communities(
                            chunkstring(slice_from(hex(attrs[k]), 6), 4)))

\* struct.pack(">L", int(s, 16)) for a non-empty string of hex digits:
\* struct.error when the integer needs more than 32 bits, else its four
\* bytes, most significant first
pack_L(s) ==
    IF \E k \in 1..(Len(s) - 8) : s[k] # "0" THEN Raise("struct.error")
    ELSE LET padded == [k \in 1..8 |->
                           IF k + Len(s) - 8 >= 1 THEN s[k + Len(s) - 8]
                           ELSE "0"]
         IN  Value([j \in 1..4 |-> 16 * digit_value(padded[2 * j - 1])
                                    + digit_value(padded[2 * j])])

\* socket.inet_ntoa of four bytes
inet_ntoa(b) ==
    str(b[1]) \o "." \o str(b[2]) \o "." \o str(b[3]) \o "." \o str(b[4])

\* a NEXT_HOP decoder that reads the last path of the destination
_extract_next_hop_last_path(destination) ==
    IF Len(destination.paths) = 0 THEN Raise("IndexError")
    ELSE LET attrs == destination.paths[Len(destination.paths)].pattrs
             k == first_match([n \in 1..Len(attrs) |-> hex(attrs[n])],
                              next_hop_prefix)
         IN  IF k = 0 THEN None
             ELSE LET digits == slice_from(hex(attrs[k]), 6)
                  IN  IF digits = <<>> THEN Raise("ValueError")
                      ELSE IF pack_L(digits).kind = "raise" THEN pack_L(digits)
                      ELSE Value(inet_ntoa(pack_L(digits).val))

_extract_next_hop(destination) ==
    IF Len(destination.paths) = 0 THEN Raise("IndexError")
    ELSE LET attrs == destination.paths[1].pattrs
             k == first_match([n \in 1..Len(attrs) |-> hex(attrs[n])],
                              next_hop_prefix)
         IN  IF k = 0 THEN None
             ELSE LET digits == slice_from(hex(attrs[k]), 6)
                  IN  IF digits = <<>> THEN Raise("ValueError")
                      ELSE IF pack_L(digits).kind = "raise" THEN pack_L(digits)
                      ELSE Value(inet_ntoa(pack_L(digits).val))

\* a MED decoder that tests the integer for truth ("return med or None")
_extract_med_zero_as_none(destination) ==
    IF Len(destination.paths) = 0 THEN Raise("IndexError")
    ELSE LET attrs == destination.paths[1].pattrs
             k == first_match([n \in 1..Len(attrs) |-> hex(attrs[n])],
                              med_prefix)
         IN  IF k = 0 THEN None
             ELSE LET digits == slice_from(hex(attrs[k]), 6)
                  IN  IF digits = <<>> THEN Raise("ValueError")
                      ELSE IF int16(digits) = 0 THEN None
                      ELSE Value(int16(digits))

_extract_med(destination) ==
    IF Len(destination.paths) = 0 THEN Raise("IndexError")
    ELSE LET attrs == destination.paths[1].pattrs
             k == first_match([n \in 1..Len(attrs) |-> hex(attrs[n])],
                              med_prefix)
         IN  IF k = 0 THEN None
             ELSE LET digits == slice_from(hex(attrs[k]), 6)
                  IN  IF digits = <<>> THEN Raise("ValueError")
                      ELSE Value(int16(digits))

\* a loop body that swallows a decoder's exception and records the attribute
\* as None
extract_route_swallowing(destination) ==
    LET absent_if_raised(r) == IF r.kind = "raise" THEN None ELSE r
    IN  Value([prefix |-> destination.prefix,
               as_path |-> absent_if_raised(_extract_as_path(destination)),
               next_hop |-> absent_if_raised(_extract_next_hop(destination)),
               community |-> absent_if_raised(_extract_community(destination)),
               med |-> absent_if_raised(_extract_med(destination))])

\* the body of the for loop of _extract_routes on one destination: the
\* route record, or the first exception one of the four decoders raises
extract_route(destination) ==
    LET as_path == _extract_as_path(destination)
        next_hop == _extract_next_hop(destination)
        community == _extract_community(destination)
        med == _extract_med(destination)
    IN  IF as_path.kind = "raise" THEN as_path
        ELSE IF next_hop.kind = "raise" THEN next_hop
        ELSE IF community.kind = "raise" THEN community
        ELSE IF med.kind = "raise" THEN med
        ELSE Value([prefix |-> destination.prefix,
                    as_path |-> as_path,
                    next_hop |-> next_hop,
                    community |-> community,
                    med |-> med])

(***************************************************************************)
(* The inputs: BGP path attributes as GoBGP returns them, in wire format   *)
(* [flags][type code][length][value] (docstring of _extract_routes).       *)
(***************************************************************************)
be16(v) == <<v \div 256, v % 256>>
be32(v) == <<v \div 16777216, (v \div 65536) % 256, (v \div 256) % 256, v % 256>>

RECURSIVE concat(_)
concat(ss) == IF Len(ss) = 0 THEN <<>> ELSE ss[1] \o concat(Tail(ss))

SeqsUpTo(S, n) == UNION {[1..m -> S] : m \in 0..n}

\* AS_PATH, flags 0x40, type 2: one AS_SEQUENCE segment (type 2) of 4-byte
\* AS numbers, "40020A0202 0000CCCC 000000AA"; an empty path has no segment
AsPathAttr(asns) ==
    IF Len(asns) = 0 THEN <<64, 2, 0>>
    ELSE <<64, 2, 2 + 4 * Len(asns), 2, Len(asns)>>
            \o concat([k \in 1..Len(asns) |-> be32(asns[k])])

\* COMMUNITY, flags 0xC0, type 8: 2-byte fields, "C00808 FAFAFFFF EEEEDDDD"
CommunityAttr(fields) ==
    <<192, 8, 2 * Len(fields)>>
        \o concat([k \in 1..Len(fields) |-> be16(fields[k])])

\* NEXT_HOP, flags 0x40, type 3: four address bytes, "400304 3C010203"
NextHopAttr(address) == <<64, 3, 4>> \o address

\* MULTI_EXIT_DISC, flags 0x80, type 4: "800404 0000BBBB"
MedAttr(med) == <<128, 4, 4>> \o be32(med)

\* one AS_SEQUENCE segment: type 2, count, 4-byte AS numbers
AsPathSegment(asns) ==
    <<2, Len(asns)>> \o concat([k \in 1..Len(asns) |-> be32(asns[k])])

\* AS_PATH with the Extended Length flag (flags 0x50) and a two-octet
\* length, the form an attribute value of more than 255 octets (64 or more
\* AS numbers) must take
ExtendedAsPathAttr(asns) ==
    <<80, 2, (2 + 4 * Len(asns)) \div 256, (2 + 4 * Len(asns)) % 256>>
        \o AsPathSegment(asns)

\* AS_PATH of two segments, which together encode first \o second
SegmentedAsPathAttr(first, second) ==
    <<64, 2, 4 + 4 * (Len(first) + Len(second))>>
        \o AsPathSegment(first) \o AsPathSegment(second)

AsnValues == {52428, 170}
FieldValues == {64250, 56797}
AsPathAttrs == {AsPathAttr(asns) : asns \in SeqsUpTo(AsnValues, MaxAsns)}
OtherAsPathAttrs == {ExtendedAsPathAttr(<<170>>),
                     SegmentedAsPathAttr(<<52428>>, <<170>>)}
CommunityAttrs ==
    {CommunityAttr(fields) : fields \in SeqsUpTo(FieldValues, MaxFields)}
NextHopAttrs == {NextHopAttr(<<60, 1, 2, 3>>), NextHopAttr(<<192, 168, 0, 1>>)}
MedValues == {0, 48059, 2130838276}          \* 0, 0x0000BBBB, 0x7F020304
MedAttrs == {MedAttr(med) : med \in MedValues}

\* well-formed attributes of the other kinds
OriginAttr == <<64, 1, 1, 0>>                                  \* ORIGIN igp
LocalPrefAttr == <<64, 5, 4, 0, 0, 0, 100>>                    \* LOCAL_PREF 100
AggregatorAttr == <<192, 7, 8, 0, 0, 253, 232, 10, 0, 0, 1>>   \* AGGREGATOR 65000 10.0.0.1
OriginatorIdAttr == <<128, 9, 4, 10, 0, 0, 1>>                 \* ORIGINATOR_ID 10.0.0.1
ExtCommunityAttr == <<192, 16, 8, 0, 2, 253, 232, 0, 0, 0, 100>> \* EXTENDED_COMMUNITIES
OtherAttrs == {OriginAttr, LocalPrefAttr, AggregatorAttr, OriginatorIdAttr,
               ExtCommunityAttr}

\* malformed attributes: a header with no value bytes, a truncated header,
\* a NEXT_HOP with five value bytes
NextHopNoValue == <<64, 3, 4>>
MedNoValue == <<128, 4, 4>>
TruncatedHeader == <<64>>
NextHopTooLong == <<64, 3, 5, 1, 0, 0, 0, 0>>
MalformedAttrs == {NextHopNoValue, MedNoValue, TruncatedHeader, NextHopTooLong}

AttrPool == AsPathAttrs \cup OtherAsPathAttrs \cup CommunityAttrs \cup NextHopAttrs \cup MedAttrs
                \cup OtherAttrs \cup MalformedAttrs

\* a destination whose first path carries the attributes attrs
DestinationOf(attrs) ==
    [prefix |-> "50.30.20.0/20", paths |-> <<[pattrs |-> attrs]>>]

(***************************************************************************)
(* Decoder runs: one decoder applied to one attribute list.                *)
(***************************************************************************)
InitDecode ==
    /\ pattrs \in SeqsUpTo(AttrPool, MaxAttrs)
    /\ call = "none"
    /\ result = None
    /\ rib = <<>> /\ pc = "idle" /\ i = 0 /\ container = <<>> /\ exc = None
    /\ peers = <<>> /\ gn_call = None /\ gn_result = None /\ neighbor = None

CallExtractAsPath ==
    /\ call = "none"
    /\ call' = "_extract_as_path"
    /\ result' = _extract_as_path(DestinationOf(pattrs))
    /\ UNCHANGED <<pattrs, rib_vars, peer_vars>>

CallExtractNextHop ==
    /\ call = "none"
    /\ call' = "_extract_next_hop"
    /\ result' = _extract_next_hop(DestinationOf(pattrs))
    /\ UNCHANGED <<pattrs, rib_vars, peer_vars>>

CallExtractCommunity ==
    /\ call = "none"
    /\ call' = "_extract_community"
    /\ result' = _extract_community(DestinationOf(pattrs))
    /\ UNCHANGED <<pattrs, rib_vars, peer_vars>>

CallExtractMed ==
    /\ call = "none"
    /\ call' = "_extract_med"
    /\ result' = _extract_med(DestinationOf(pattrs))
    /\ UNCHANGED <<pattrs, rib_vars, peer_vars>>

NextDecode ==
    \/ CallExtractAsPath
    \/ CallExtractNextHop
    \/ CallExtractCommunity
    \/ CallExtractMed

SpecDecode == InitDecode /\ [][NextDecode]_vars

(***************************************************************************)
(* get_rib: _extract_routes over the destinations of a GetRib response.    *)
(***************************************************************************)
\* the route of the docstring of _extract_routes:
\* gobgp global rib add 50.30.20.0/20 origin igp nexthop 60.1.2.3
\*     community 64250:65535,61166:56797 aspath 52428,170 med 48059
ExamplePath ==
    [pattrs |-> <<AsPathAttr(<<52428, 170>>),
                  NextHopAttr(<<60, 1, 2, 3>>),
                  MedAttr(48059),
                  CommunityAttr(<<64250, 65535, 61166, 56797>>)>>]
NoAttrPath == [pattrs |-> <<>>]
PlainPath ==
    [pattrs |-> <<OriginAttr, AsPathAttr(<<170>>),
                  NextHopAttr(<<192, 168, 0, 1>>)>>]
MalformedPath == [pattrs |-> <<AsPathAttr(<<170>>), NextHopNoValue>>]

FirstPaths == {ExamplePath, NoAttrPath, PlainPath, MalformedPath}
LaterPaths == {PlainPath, MalformedPath}
PathLists ==
    {<<>>} \cup {<<first>> \o rest :
                    first \in FirstPaths,
                    rest \in SeqsUpTo(LaterPaths, MaxPaths - 1)}
Prefixes == {"50.30.20.0/20", "10.0.0.0/8"}
Destinations == [prefix : Prefixes, paths : PathLists]

InitRib ==
    /\ rib \in SeqsUpTo(Destinations, MaxDests)
    /\ pc = "idle" /\ i = 0 /\ container = <<>> /\ exc = None
    /\ pattrs = <<>> /\ call = "none" /\ result = None
    /\ peers = <<>> /\ gn_call = None /\ gn_result = None /\ neighbor = None

\* get_rib calls _extract_routes on the response: container = []
GetRib ==
    /\ pc = "idle"
    /\ pc' = "loop"
    /\ i' = 1
    /\ container' = <<>>
    /\ UNCHANGED <<rib, exc, decode_vars, peer_vars>>

\* a loop that skips a destination whose prefix is already in container
ExtractDestinationDeduplicating ==
    /\ pc = "loop"
    /\ i <= Len(rib)
    /\ LET route == extract_route(rib[i])
       IN  IF route.kind = "raise"
           THEN /\ pc' = "raised"
                /\ exc' = route
                /\ UNCHANGED <<i, container>>
           ELSE /\ container' =
                      IF \E k \in 1..Len(container) :
                            container[k].prefix = route.val.prefix
                      THEN container
                      ELSE Append(container, route.val)
                /\ i' = i + 1
                /\ UNCHANGED <<pc, exc>>
    /\ UNCHANGED <<rib, decode_vars, peer_vars>>

\* one pass of the for loop: the route is appended, or the exception a
\* decoder raised leaves _extract_routes and get_rib
ExtractDestination ==
    /\ pc = "loop"
    /\ i <= Len(rib)
    /\ LET route == extract_route(rib[i])
       IN  IF route.kind = "raise"
           THEN /\ pc' = "raised"
                /\ exc' = route
                /\ UNCHANGED <<i, container>>
           ELSE /\ container' = Append(container, route.val)
                /\ i' = i + 1
                /\ UNCHANGED <<pc, exc>>
    /\ UNCHANGED <<rib, decode_vars, peer_vars>>

\* return container
ReturnRoutes ==
    /\ pc = "loop"
    /\ i > Len(rib)
    /\ pc' = "returned"
    /\ UNCHANGED <<rib, i, container, exc, decode_vars, peer_vars>>

NextRib ==
    \/ GetRib
    \/ ExtractDestination
    \/ ReturnRoutes

Spec == InitRib /\ [][NextRib]_vars

(***************************************************************************)
(* Peers: get_neighbor, get_all_neighbors and the Neighbor class.          *)
(***************************************************************************)
PyNone == "<None>"                       \* None where a str is expected
truthy(v) == v # PyNone /\ v # ""        \* "if v" on a str or None

Addresses == {"10.0.255.2", "10.0.255.3", "10.0.255.4"}
PeerOf(address) == [conf |-> [neighbor_address |-> address]]
PeerLists ==
    {ps \in SeqsUpTo({PeerOf(a) : a \in Addresses}, MaxPeers) :
        \A j, k \in 1..Len(ps) : j # k => ps[j] # ps[k]}

\* get_neighbor: the for loop over resp.peers returns the first peer when
\* its address is the one asked for and raises PeerNotFound otherwise; with
\* no peer the loop body never runs and the method returns None
get_neighbor(resp_peers, address) ==
    IF Len(resp_peers) = 0 THEN None
    ELSE IF resp_peers[1].conf.neighbor_address = address
         THEN Value(resp_peers[1])
         ELSE Raise("PeerNotFound")

\* get_all_neighbors: resp.peers
get_all_neighbors(resp_peers) == Value(resp_peers)

\* Neighbor._create_peer_conf: gobgp.PeerConf(**params); a str field that is
\* not set reads "" in the message
_create_peer_conf(self) ==
    [local_address |-> self._local_address,
     neighbor_address |-> self._neighbor_address,
     local_as |-> self._local_as,
     peer_as |-> self._peer_as,
     auth_password |-> IF truthy(self._auth_password)
                       THEN self._auth_password ELSE "",
     description |-> IF truthy(self._description)
                     THEN self._description ELSE ""]

\* Neighbor._create_transport: gobgp.Transport(local_address=self._local_address)
_create_transport(self) == [local_address |-> self._local_address]

\* Neighbor._create_ebgp_multihop
_create_ebgp_multihop(self) ==
    [enabled |-> self._ebgp_multihop, multihop_ttl |-> self._ebgp_multihop_ttl]

\* Neighbor._create_peer
_create_peer(self) ==
    [families |-> self._families,
     conf |-> _create_peer_conf(self),
     transport |-> _create_transport(self),
     ebgp_multihop |-> _create_ebgp_multihop(self)]

\* Neighbor.__init__: the attributes, then self.peer = self._create_peer()
NeighborFields(args) ==
    [_families |-> <<65537>>,
     _local_address |-> args.local_address,
     _neighbor_address |-> args.neighbor_address,
     _local_as |-> args.local_as,
     _peer_as |-> args.peer_as,
     _transport_address |-> IF truthy(args.transport_address)
                            THEN args.transport_address
                            ELSE args.local_address,
     _ebgp_multihop |-> args.ebgp_multihop,
     _ebgp_multihop_ttl |-> args.ebgp_multihop_ttl,
     _router_id |-> IF truthy(args.router_id)
                    THEN args.router_id ELSE args.local_address,
     _auth_password |-> args.auth_password,
     _description |-> args.description]
Neighbor(args) ==
    NeighborFields(args) @@ [peer |-> _create_peer(NeighborFields(args))]

NeighborArgs ==
    [local_address : {"10.0.255.2"},
     neighbor_address : {"10.0.255.3"},
     local_as : {64512},
     peer_as : {65001},
     transport_address : {PyNone, "10.0.255.2", "192.168.1.1"},
     ebgp_multihop : {TRUE, FALSE},
     ebgp_multihop_ttl : {255},
     router_id : {PyNone, "1.1.1.1"},
     auth_password : {PyNone, "secret"},
     description : {PyNone, "edge router"}]

InitPeer ==
    /\ peers \in PeerLists
    /\ gn_call = None /\ gn_result = None /\ neighbor = None
    /\ pattrs = <<>> /\ call = "none" /\ result = None
    /\ rib = <<>> /\ pc = "idle" /\ i = 0 /\ container = <<>> /\ exc = None

GetNeighbor(address) ==
    /\ gn_call = None
    /\ gn_call' = Value([op |-> "get_neighbor", address |-> address])
    /\ gn_result' = get_neighbor(peers, address)
    /\ UNCHANGED <<peers, neighbor, decode_vars, rib_vars>>

GetAllNeighbors ==
    /\ gn_call = None
    /\ gn_call' = Value([op |-> "get_all_neighbors", address |-> PyNone])
    /\ gn_result' = get_all_neighbors(peers)
    /\ UNCHANGED <<peers, neighbor, decode_vars, rib_vars>>

\* Neighbor(...): the object built, with the arguments it was built from
NewNeighbor(args) ==
    /\ neighbor = None
    /\ neighbor' = Value(Neighbor(args)) @@ [args |-> args]
    /\ UNCHANGED <<peers, gn_call, gn_result, decode_vars, rib_vars>>

NextPeer ==
    \/ \E address \in Addresses : GetNeighbor(address)
    \/ GetAllNeighbors
    \/ \E args \in NeighborArgs : NewNeighbor(args)

SpecPeer == InitPeer /\ [][NextPeer]_vars

(***************************************************************************)
(* Properties.                                                             *)
(***************************************************************************)
type_code(attr) == IF Len(attr) >= 2 THEN attr[2] ELSE -1
WellFormed(attr) ==
    IF Len(attr) >= 1 /\ (attr[1] \div 16) % 2 = 1
    THEN Len(attr) >= 4 /\ attr[3] * 256 + attr[4] = Len(attr) - 4
    ELSE Len(attr) >= 3 /\ attr[3] = Len(attr) - 3

\* C1: a path whose attributes are all well-formed and none of which is an
\* AS_PATH (2), NEXT_HOP (3), MED (4) or COMMUNITY (8) attribute makes each
\* of the four decoders return None.
C1_AbsentWithoutTargetAttribute ==
    (/\ call # "none"
     /\ \A k \in 1..Len(pattrs) :
            WellFormed(pattrs[k]) /\ type_code(pattrs[k]) \notin {2, 3, 4, 8})
        => result = None

\* the well-formed AS_PATH attributes that encode the AS numbers asns: one
\* segment with a one-octet or a two-octet length, or two segments
AsPathEncodings(asns) ==
    {AsPathAttr(asns)}
        \cup (IF Len(asns) >= 1 THEN {ExtendedAsPathAttr(asns)} ELSE {})
        \cup {SegmentedAsPathAttr(SubSeq(asns, 1, m),
                                  SubSeq(asns, m + 1, Len(asns))) :
                m \in 1..(Len(asns) - 1)}

\* C2: when the first AS_PATH attribute of the path is a well-formed
\* AS_PATH that encodes the AS numbers asns (n = Len(asns) >= 0 of them, 4
\* bytes each), _extract_as_path returns the list of exactly those n
\* integers, in the encoded order.
C2_AsPathDecodesEncodedAsns ==
    call = "_extract_as_path" =>
        \A k \in 1..Len(pattrs) :
            \A asns \in SeqsUpTo(AsnValues, MaxAsns) :
                (/\ pattrs[k] \in AsPathEncodings(asns)
                 /\ \A j \in 1..(k - 1) : type_code(pattrs[j]) # 2)
                    => /\ result.kind = "value"
                       /\ Len(result.val) = Len(asns)
                       /\ result.val = asns

\* the strings "<f(2i)>:<f(2i+1)>" of the field pairs of fields
ExpectedCommunities(fields) ==
    [m \in 1..(Len(fields) \div 2) |->
        ToString(fields[2 * m - 1]) \o ":" \o ToString(fields[2 * m])]

\* C3: when the attribute _extract_community decodes is a COMMUNITY
\* attribute with the k 2-byte fields f0..f(k-1), the result is the list of
\* the floor(k/2) strings "<f(2i)>:<f(2i+1)>" in encoded order; for odd k the
\* last field is dropped and nothing is raised.
C3_CommunityPairsFields ==
    call = "_extract_community" =>
        \A k \in 1..Len(pattrs) :
            \A fields \in SeqsUpTo(FieldValues, MaxFields) :
                (/\ pattrs[k] = CommunityAttr(fields)
                 /\ \A j \in 1..(k - 1) :
                        ~startswith(upper(hex(pattrs[j])), community_prefix))
                    => /\ result.kind = "value"
                       /\ Len(result.val) = Len(fields) \div 2
                       /\ result.val = ExpectedCommunities(fields)

C3_Witness ==
    /\ call = "_extract_community"
    /\ pattrs = <<OriginAttr, CommunityAttr(<<64250, 56797, 64250>>)>>
    /\ result = Value(<<"64250:56797">>)

\* a destination with a first path none of whose attributes is malformed
Decodable(destination) ==
    /\ Len(destination.paths) >= 1
    /\ \A k \in 1..Len(destination.paths[1].pattrs) :
            WellFormed(destination.paths[1].pattrs[k])

\* C4: over a table whose destinations are all decodable, _extract_routes
\* does not fail, has one record per destination handled so far, in table
\* order and with the destination's prefix, and returns one record per
\* destination.
C4_OneRoutePerDestinationInOrder ==
    (\A k \in 1..Len(rib) : Decodable(rib[k])) =>
        /\ pc # "raised"
        /\ pc = "loop" => Len(container) = i - 1
        /\ pc = "returned" => Len(container) = Len(rib)
        /\ \A k \in 1..Len(container) : container[k].prefix = rib[k].prefix

C4_Witness ==
    /\ pc = "returned"
    /\ Len(rib) = 2
    /\ Decodable(rib[1]) /\ Decodable(rib[2])
    /\ rib[1].prefix = "10.0.0.0/8" /\ rib[2].prefix = "10.0.0.0/8"
    /\ Len(container) = 2

\* C5: an empty attribute list, or one holding an attribute too short for
\* its header or for its value, makes every decoder return None and raise
\* nothing.
C5_MalformedYieldsAbsent ==
    (/\ call # "none"
     /\ \/ pattrs = <<>>
        \/ /\ Len(pattrs) = 1
           /\ pattrs[1] \in {NextHopNoValue, MedNoValue, TruncatedHeader})
        => result = None

\* C6: a destination with zero paths never gets a route record: reaching it
\* ends _extract_routes with IndexError, and get_rib never returns.
C6_EmptyPathsIsAnError ==
    \A k \in 1..Len(rib) :
        Len(rib[k].paths) = 0 =>
            /\ Len(container) < k
            /\ pc # "returned"
            /\ (pc = "loop" => i <= k)
            /\ (pc = "raised" /\ i = k) => exc = Raise("IndexError")

C6_Witness ==
    /\ pc = "raised"
    /\ i = 2
    /\ rib[1].paths = <<NoAttrPath>>
    /\ Len(rib[2].paths) = 0
    /\ exc = Raise("IndexError")
    /\ Len(container) = 1
    /\ container[1].as_path = None /\ container[1].med = None

\* C7: a table whose destinations all have a path, some with malformed
\* attributes, never makes the whole batch fail.
C7_BatchSurvivesMalformedAttributes ==
    (\A k \in 1..Len(rib) : Len(rib[k].paths) >= 1) => pc # "raised"

\* C8: get_neighbor(address) returns the peer with that address when one is
\* in the peer list, at any position, and raises PeerNotFound when none is.
C8_GetNeighborFindsOrRaises ==
    (gn_call.kind = "value" /\ gn_call.val.op = "get_neighbor") =>
        LET address == gn_call.val.address
        IN  IF \E k \in 1..Len(peers) :
                    peers[k].conf.neighbor_address = address
            THEN gn_result = Value(PeerOf(address))
            ELSE gn_result = Raise("PeerNotFound")

\* the RIB snapshot of C9, byte for byte
C9_Rib ==
    <<[prefix |-> "50.30.20.0/20",
       paths |-> <<[pattrs |->
            <<<<64, 2, 10, 2, 2, 0, 0, 204, 204, 0, 0, 0, 170>>,
              <<64, 3, 4, 60, 1, 2, 3>>,
              <<128, 4, 4, 0, 0, 187, 187>>,
              <<192, 8, 8, 250, 250, 255, 255, 238, 238, 221, 221>>>>]>>]>>

C9_Routes ==
    <<[prefix |-> "50.30.20.0/20",
       as_path |-> Value(<<52428, 170>>),
       next_hop |-> Value("60.1.2.3"),
       community |-> Value(<<"64250:65535", "61166:56797">>),
       med |-> Value(48059)]>>

\* C9: on the snapshot with the one destination 50.30.20.0/20 of the
\* docstring, _extract_routes does not fail and returns exactly the record
\* with as_path [52428, 170], next_hop "60.1.2.3", med 48059 and community
\* ["64250:65535", "61166:56797"].
C9_DocstringExample ==
    rib = C9_Rib =>
        /\ pc # "raised"
        /\ pc = "returned" => container = C9_Routes

C9_Witness == rib = C9_Rib /\ pc = "returned" /\ container = C9_Routes

\* C10: the Peer built by Neighbor(...) has the transport_address argument
\* as its transport local address when one is given, and local_address when
\* it is omitted.
C10_TransportUsesTransportAddress ==
    neighbor.kind = "value" =>
        LET args == neighbor.args
        IN  neighbor.val.peer.transport.local_address =
                IF truthy(args.transport_address)
                THEN args.transport_address
                ELSE args.local_address

\* the attributes of the kind a decoder is for, and what each decodes to
KindAttrs(decoder) ==
    CASE decoder = "_extract_as_path" -> AsPathAttrs
      [] decoder = "_extract_next_hop" -> NextHopAttrs
      [] decoder = "_extract_community" -> CommunityAttrs
      [] decoder = "_extract_med" -> MedAttrs
      [] OTHER -> {}

\* the dotted-decimal form of the four address bytes of a NEXT_HOP attribute
ExpectedAddress(attr) ==
    ToString(attr[4]) \o "." \o ToString(attr[5]) \o "."
        \o ToString(attr[6]) \o "." \o ToString(attr[7])

\* the value a well-formed attribute of the decoder's kind encodes
ExpectedDecoding(decoder, attr) ==
    CASE decoder = "_extract_as_path" ->
            CHOOSE asns \in SeqsUpTo(AsnValues, MaxAsns) :
                attr = AsPathAttr(asns)
      [] decoder = "_extract_next_hop" -> ExpectedAddress(attr)
      [] decoder = "_extract_community" ->
            ExpectedCommunities(
                CHOOSE fields \in SeqsUpTo(FieldValues, MaxFields) :
                    attr = CommunityAttr(fields))
      [] decoder = "_extract_med" ->
            CHOOSE med \in MedValues : attr = MedAttr(med)

\* the hex prefix a decoder looks for, as it compares it
MatchedBy(decoder, attr) ==
    CASE decoder = "_extract_as_path" -> startswith(hex(attr), as_path_prefix)
      [] decoder = "_extract_next_hop" -> startswith(hex(attr), next_hop_prefix)
      [] decoder = "_extract_community" ->
            startswith(upper(hex(attr)), community_prefix)
      [] decoder = "_extract_med" -> startswith(hex(attr), med_prefix)
      [] OTHER -> FALSE

\* C11: when the attribute list holds two attributes of a decoder's kind
\* with different values, the earlier being the first attribute the decoder
\* matches, the decoder returns the value of the earlier one: the later one
\* has no effect on the result.
C11_FirstMatchingAttributeWins ==
    call # "none" =>
        \A k \in 1..Len(pattrs) :
            \A l \in (k + 1)..Len(pattrs) :
                (/\ pattrs[k] \in KindAttrs(call)
                 /\ pattrs[l] \in KindAttrs(call)
                 /\ pattrs[k] # pattrs[l]
                 /\ \A j \in 1..(k - 1) : ~MatchedBy(call, pattrs[j]))
                    => result = Value(ExpectedDecoding(call, pattrs[k]))

C11_Witness ==
    /\ call = "_extract_med"
    /\ pattrs = <<MedAttr(0), MedAttr(48059)>>
    /\ result = Value(0)

\* C12: the route record of a destination depends only on its prefix and
\* on paths[0]: in the list _extract_routes returns, two destinations with
\* the same prefix and the same first path have identical records, whatever
\* their later paths, and each record is the one of the destination with its
\* first path alone.
C12_OnlyFirstPathConsulted ==
    pc = "returned" =>
        /\ \A k \in 1..Len(container) :
                \A l \in (k + 1)..Len(container) :
                    (/\ rib[k].prefix = rib[l].prefix
                     /\ rib[k].paths[1] = rib[l].paths[1])
                        => container[k] = container[l]
        /\ \A k \in 1..Len(container) :
                Value(container[k]) =
                    extract_route([prefix |-> rib[k].prefix,
                                   paths |-> <<rib[k].paths[1]>>])

C12_Witness ==
    /\ pc = "returned"
    /\ Len(rib) = 2
    /\ rib[1] = [prefix |-> "50.30.20.0/20", paths |-> <<ExamplePath>>]
    /\ rib[2] = [prefix |-> "50.30.20.0/20",
                 paths |-> <<ExamplePath, MalformedPath>>]
    /\ Len(container) = 2
    /\ container[1] = container[2]

\* the big-endian unsigned integer of the four value bytes that follow the
\* 3-byte header of attr
BigEndianValue(attr) ==
    ((attr[4] * 256 + attr[5]) * 256 + attr[6]) * 256 + attr[7]

\* C13: when the attribute _extract_med matches is a MED attribute, the
\* result is a value, never None: the big-endian unsigned integer of the 4
\* value bytes after the 3-byte header, which lies in 0..2^32-1 (stated
\* as val \div 2^16 <= 2^16 - 1); a MED of 0 is returned as 0.
C13_MedIsBigEndianUnsigned ==
    call = "_extract_med" =>
        \A k \in 1..Len(pattrs) :
            (/\ pattrs[k] \in MedAttrs
             /\ \A j \in 1..(k - 1) : ~startswith(hex(pattrs[j]), med_prefix))
                => /\ result.kind = "value"
                   /\ result.val = BigEndianValue(pattrs[k])
                   /\ result.val >= 0
                   /\ result.val \div 65536 <= 65535
                   /\ pattrs[k] = MedAttr(0) => result = Value(0)

C13_Witness ==
    /\ call = "_extract_med"
    /\ pattrs = <<OriginAttr, MedAttr(0)>>
    /\ result = Value(0)

====
